---- MODULE Spec2Model ----
(***************************************************************************)
(* State-machine model of the symptom-triage server: the Express route     *)
(* layer (registerRoutes), the relational schema it writes to, and the     *)
(* server-side session each request carries.                               *)
(*                                                                         *)
(* Every handler is one action, except the two handlers whose awaited      *)
(* call can be overtaken by other requests: POST /api/triage/analyze       *)
(* (awaits the classifier) and POST /api/auth/signup (looks the email up,  *)
(* then inserts).  Those are split at the await.  The other awaits only    *)
(* read or append rows that no handler updates or deletes.                 *)
(***************************************************************************)
EXTENDS Integers, Sequences, FiniteSets, TLC

\* ------------------------------------------------------------------ bounds
\* rows created through the routes, over the three record tables together
MaxRows == 1
\* guest identifiers handed out
MaxGuests == 1
\* requests suspended at an await at the same time
MaxInflight == 2

\* the seed route writes one vitals row for each of the past SeedDays days
SeedDays == 7

Tokens == {"t1", "t2"}

\* ------------------------------------------------------- JavaScript values
\* Every value a handler branches on is a tagged record, so that undefined,
\* null, false and the id strings stay distinct and comparable.
Undefined == [kind |-> "undefined", n |-> 0]
Null == [kind |-> "null", n |-> 0]
JTrue == [kind |-> "bool", n |-> 1]
JFalse == [kind |-> "bool", n |-> 0]
\* a users.id value (gen_random_uuid()); n is the row's position
UserId(k) == [kind |-> "user", n |-> k]
\* `guest-${randomUUID()}`
GuestId(k) == [kind |-> "guest", n |-> k]
\* a triage_sessions.id value
TriageId(k) == [kind |-> "triage", n |-> k]
\* an id string that names no row of any table
BogusId == [kind |-> "bogus", n |-> 0]

\* JavaScript truthiness of the values above (ids are non-empty strings)
Truthy(v) == v.kind \notin {"undefined", "null"} /\ v # JFalse

\* a || b
OrElse(a, b) == IF Truthy(a) THEN a ELSE b

\* ----------------------------------------------------------------- strings
\* A string is a sequence of one-character strings.
Whitespace == {" ", "\t", "\n"}

RECURSIVE trimStart(_)
trimStart(s) ==
  IF s # <<>> /\ Head(s) \in Whitespace THEN trimStart(Tail(s)) ELSE s

RECURSIVE trimEnd(_)
trimEnd(s) ==
  IF s # <<>> /\ s[Len(s)] \in Whitespace
  THEN trimEnd(SubSeq(s, 1, Len(s) - 1))
  ELSE s

\* String.prototype.trim
trim(s) == trimEnd(trimStart(s))

RECURSIVE join(_, _)
\* Array.prototype.join
join(list, sep) ==
  IF list = <<>> THEN <<>>
  ELSE IF Len(list) = 1 THEN list[1]
  ELSE list[1] \o sep \o join(Tail(list), sep)

\* z.string().email(): one "@", a non-empty local part, a dotted domain,
\* no whitespace.
IsEmail(s) ==
  /\ Cardinality({i \in DOMAIN s : s[i] = "@"}) = 1
  /\ \A i \in DOMAIN s : s[i] \notin Whitespace
  /\ LET at == CHOOSE i \in DOMAIN s : s[i] = "@"
     IN /\ at > 1
        /\ \E d \in (at + 2)..(Len(s) - 1) : s[d] = "."

\* ----------------------------------------------------------------- schema
\* the minimum lengths of loginSchema and signupSchema
MinLoginPassword == 1
MinSignupPassword == 6
MinNameLen == 1

\* loginSchema
\* (variant: the login schema asks for a longer password than signup does)
loginSchemaOk_LongPassword(body) ==
  /\ IsEmail(body.email)
  /\ Len(body.password) > MinSignupPassword

loginSchemaOk(body) ==
  /\ IsEmail(body.email)
  /\ Len(body.password) >= MinLoginPassword

\* signupSchema
signupSchemaOk(body) ==
  /\ IsEmail(body.email)
  /\ Len(body.password) >= MinSignupPassword
  /\ Len(body.firstName) >= MinNameLen
  /\ Len(body.lastName) >= MinNameLen

\* ------------------------------------------------------------------ state
VARIABLES
  users,          \* table users, in insertion order
  triageSessions, \* table triage_sessions, in insertion order
  vitals,         \* table vitals, in insertion order
  consultations,  \* table consultations, in insertion order
  session,        \* session token -> the req.session payload
  guests,         \* number of guest ids generated so far
  analyzing,      \* analyze requests awaiting the classifier
  signingUp,      \* signup requests between the email lookup and the insert
  signedUp        \* history: the signups that succeeded, with the id returned

store == <<users, triageSessions, vitals, consultations>>
vars == <<users, triageSessions, vitals, consultations, session, guests,
          analyzing, signingUp, signedUp>>

\* a session with nothing stored in it
EmptySession == [userId |-> Undefined, isGuest |-> Undefined]

\* A response: the HTTP status, the id and the rows of its JSON body, and
\* its message.  NoResp: the handler has not answered yet.
NoResp == [status |-> 0, id |-> Undefined, rows |-> <<>>, message |-> ""]

Reply(status, id, rows, message) ==
  [status |-> status, id |-> id, rows |-> rows, message |-> message]

Unauthorized == Reply(401, Undefined, <<>>, "Unauthorized")

\* The identity a session resolves to, as GET /api/auth/user reads it.
Resolve(s) ==
  IF ~Truthy(s.userId) THEN "Unauthenticated"
  ELSE IF Truthy(s.isGuest) THEN "Guest"
  ELSE "Authenticated"

\* ---------------------------------------------------------------- storage
\* Row lookups of the storage layer.
getUserByEmail(email) == {i \in DOMAIN users : users[i].email = email}

getUser(id) == {i \in DOMAIN users : users[i].id = id}

getTriageSession(id) ==
  {i \in DOMAIN triageSessions : triageSessions[i].id = id}

SelectByUser(table, userId) ==
  SelectSeq(table, LAMBDA row : row.userId = userId)

getTriageSessionsByUser(userId) == SelectByUser(triageSessions, userId)

getVitalsByUser(userId) == SelectByUser(vitals, userId)

getConsultationsByUser(userId) == SelectByUser(consultations, userId)

\* A column value left undefined is not sent to the database, which stores
\* the column's default (null where none is declared).
Column(v) == IF v = Undefined THEN Null ELSE v

\* (variant: users.email is declared without unique())
UsersEmailUnique_NotDeclared(email) == TRUE

\* users.email is unique
UsersEmailUnique(email) == getUserByEmail(email) = {}

\* (variant: userId is declared without references())
RefUser_NotDeclared(v) == TRUE

\* references(() => users.id)
RefUser(v) == v = Null \/ getUser(v) # {}

\* references(() => triageSessions.id)
RefTriage(v) == v = Null \/ getTriageSession(v) # {}

\* .notNull()
NotNull(v) == v # Null

\* a consultation_type value
ConsultationType(name) == [kind |-> name, n |-> 0]

\* constraints of table triage_sessions on the inserted values
TriageSessionsOk(v) == RefUser(Column(v.userId))

\* constraints of table vitals
VitalsOk(v) == RefUser(Column(v.userId)) /\ NotNull(Column(v.userId))

\* constraints of table consultations
ConsultationsOk(v) ==
  /\ RefUser(Column(v.userId)) /\ NotNull(Column(v.userId))
  /\ RefTriage(Column(v.triageSessionId))
  /\ NotNull(Column(v.consultationType))

\* ------------------------------------------------------------------- auth
\* The password hash: not the identity, and equal exactly on equal input.
hashPassword(p) == <<"$">> \o p

comparePasswords(p, hash) == hashPassword(p) = hash

\* loginUser: the matching user's row index, 0 for InvalidCredentials
loginUser(body) ==
  LET found == getUserByEmail(body.email)
  IN IF found = {} THEN 0
     ELSE LET i == CHOOSE j \in found : TRUE
          IN IF comparePasswords(body.password, users[i].password)
             THEN i ELSE 0

\* the gate of the identity-scoped routes
isAuthenticated(s) == Resolve(s) = "Authenticated"

\* ----------------------------------------------------------------- inputs
Str_a == <<"a", "@", "x", ".", "c", "o">>
Str_seed1 ==
  <<"a", "b", "c", "1", "2", "3", "@", "g", "m", "a", "i", "l", ".", "c",
    "o", "m">>
Str_seed2 ==
  <<"a", "b", "c", "4", "5", "6", "@", "g", "m", "a", "i", "l", ".", "c",
    "o", "m">>
Str_seed3 ==
  <<"a", "b", "c", "7", "8", "9", "@", "g", "m", "a", "i", "l", ".", "c",
    "o", "m">>
Str_abc123 == <<"a", "b", "c", "1", "2", "3">>
Str_secret == <<"s", "e", "c", "r", "e", "t">>
Str_hunter2 == <<"h", "u", "n", "t", "e", "r", "2">>

\* request bodies of POST /api/auth/signup: a valid one, a short password,
\* a malformed email, an empty first name
SignupBodies ==
  { [email |-> Str_a, password |-> Str_secret,
     firstName |-> <<"A">>, lastName |-> <<"B">>],
    [email |-> Str_a, password |-> <<"s", "h", "o", "r", "t">>,
     firstName |-> <<"A">>, lastName |-> <<"B">>],
    [email |-> <<"a", "x", ".", "c", "o">>, password |-> Str_secret,
     firstName |-> <<"A">>, lastName |-> <<"B">>],
    [email |-> Str_a, password |-> Str_secret,
     firstName |-> <<>>, lastName |-> <<"B">>] }

\* request bodies of POST /api/auth/login
LoginBodies ==
  { [email |-> Str_a, password |-> Str_secret],
    [email |-> Str_a, password |-> Str_hunter2],
    [email |-> Str_seed1, password |-> <<>>] }

\* the patients POST /api/seed creates
SeedPatients ==
  << [email |-> Str_seed1, password |-> Str_abc123],
     [email |-> Str_seed2, password |-> Str_abc123],
     [email |-> Str_seed3, password |-> Str_abc123] >>

\* request bodies of POST /api/triage/analyze: symptoms missing, empty,
\* whitespace only, and present
AnalyzeBodies ==
  { [hasSymptoms |-> FALSE, symptoms |-> <<>>, quickTriageTypes |-> <<>>],
    [hasSymptoms |-> TRUE, symptoms |-> <<>>, quickTriageTypes |-> <<>>],
    [hasSymptoms |-> TRUE, symptoms |-> <<" ", "\t">>,
     quickTriageTypes |-> <<>>],
    [hasSymptoms |-> TRUE, symptoms |-> <<" ", "h">>,
     quickTriageTypes |-> << <<"H">>, <<"F">> >>] }

\* what the classifier can answer
ClassifierOutputs ==
  { [riskLevel |-> "low", triagePriority |-> "P3"],
    [riskLevel |-> "red", triagePriority |-> "P1"] }

\* request bodies of POST /api/vitals: the caller may send a userId too
VitalsBodies ==
  { [hasUserId |-> FALSE, userId |-> Undefined],
    [hasUserId |-> TRUE, userId |-> UserId(1)],
    [hasUserId |-> TRUE, userId |-> BogusId] }

\* request bodies of POST /api/consultations
ConsultationBodies ==
  { [consultationType |-> ConsultationType("urgent"),
     triageSessionId |-> Undefined, status |-> "confirmed",
     userId |-> UserId(1)],
    [consultationType |-> ConsultationType("follow_up"),
     triageSessionId |-> TriageId(1), status |-> "pending",
     userId |-> Undefined],
    [consultationType |-> Undefined,
     triageSessionId |-> Undefined, status |-> "pending",
     userId |-> Undefined] }

\* ------------------------------------------------------------------- Init
Init ==
  /\ users = <<>>
  /\ triageSessions = <<>>
  /\ vitals = <<>>
  /\ consultations = <<>>
  /\ session = [t \in Tokens |-> EmptySession]
  /\ guests = 0
  /\ analyzing = {}
  /\ signingUp = {}
  /\ signedUp = {}

\* rows the routes have created, and those the analyses in flight may add
RowsUsed ==
  Len(triageSessions) + Len(consultations) + Cardinality(analyzing)
  + Cardinality({i \in DOMAIN vitals : vitals[i].via = "route"})

\* Each handler is a function of the state and the request, to the response
\* and the state it leaves (the ...Result operators), and an action that
\* applies it.

\* ------------------------------------------------------------ auth routes
\* (variant: a refused login clears the session)
LoginResult_DropsSession(t, body) ==
  IF ~loginSchemaOk(body)
  THEN [resp |-> Reply(400, Undefined, <<>>, "Invalid request"),
        session |-> session[t]]
  ELSE LET i == loginUser(body)
       IN IF i = 0
          THEN [resp |-> Reply(401, Undefined, <<>>,
                               "Invalid email or password"),
                session |-> EmptySession]
          ELSE [resp |-> Reply(200, users[i].id, <<>>, ""),
                session |-> [userId |-> users[i].id, isGuest |-> JFalse]]

\* POST /api/auth/login
LoginResult(t, body) ==
  IF ~loginSchemaOk(body)
  THEN [resp |-> Reply(400, Undefined, <<>>, "Invalid request"),
        session |-> session[t]]
  ELSE LET i == loginUser(body)
       IN IF i = 0
          THEN [resp |-> Reply(401, Undefined, <<>>,
                               "Invalid email or password"),
                session |-> session[t]]
          ELSE [resp |-> Reply(200, users[i].id, <<>>, ""),
                session |-> [userId |-> users[i].id, isGuest |-> JFalse]]

Login(t, body) ==
  /\ session' = [session EXCEPT ![t] = LoginResult(t, body).session]
  /\ UNCHANGED <<store, guests, analyzing, signingUp, signedUp>>

\* POST /api/auth/signup up to the insert: validation and the email lookup
SignupStartResult(t, body) ==
  IF ~signupSchemaOk(body)
  THEN [resp |-> Reply(400, Undefined, <<>>, "Invalid request"),
        signingUp |-> signingUp]
  ELSE IF getUserByEmail(body.email) # {}
  THEN [resp |-> Reply(400, Undefined, <<>>, "Email already registered"),
        signingUp |-> signingUp]
  ELSE [resp |-> NoResp,
        signingUp |-> signingUp \cup {[tok |-> t, body |-> body]}]

SignupStart(t, body) ==
  LET r == SignupStartResult(t, body)
  IN /\ Cardinality(r.signingUp) <= MaxInflight
     /\ signingUp' = r.signingUp
     /\ UNCHANGED <<store, session, guests, analyzing, signedUp>>

\* POST /api/auth/signup from the insert on
SignupFinishResult(r) ==
  IF ~UsersEmailUnique(r.body.email)
  THEN [resp |-> Reply(400, Undefined, <<>>, "duplicate key"),
        users |-> users, session |-> session[r.tok]]
  ELSE LET id == UserId(Len(users) + 1)
       IN [resp |-> Reply(200, id, <<>>, ""),
           users |-> Append(users,
             [id |-> id, email |-> r.body.email,
              password |-> hashPassword(r.body.password),
              firstName |-> r.body.firstName,
              lastName |-> r.body.lastName]),
           session |-> [userId |-> id, isGuest |-> JFalse]]

SignupFinish(r) ==
  LET res == SignupFinishResult(r)
  IN /\ r \in signingUp
     /\ signingUp' = signingUp \ {r}
     /\ users' = res.users
     /\ session' = [session EXCEPT ![r.tok] = res.session]
     /\ signedUp' = IF res.resp.status = 200
                    THEN signedUp \cup {[body |-> r.body, id |-> res.resp.id]}
                    ELSE signedUp
     /\ UNCHANGED <<triageSessions, vitals, consultations, guests, analyzing>>

\* (variant: guest entry sets isGuest only where the session has none)
GuestEntryResult_KeepsFlag(t) ==
  LET guestId == GuestId(guests + 1)
  IN [resp |-> Reply(200, guestId, <<>>, ""),
      session |-> [userId |-> guestId,
                   isGuest |-> IF session[t].isGuest = Undefined
                               THEN JTrue ELSE session[t].isGuest]]

\* POST /api/auth/guest
GuestEntryResult(t) ==
  LET guestId == GuestId(guests + 1)
  IN [resp |-> Reply(200, guestId, <<>>, ""),
      session |-> [userId |-> guestId, isGuest |-> JTrue]]

GuestEntry(t) ==
  /\ guests < MaxGuests
  /\ guests' = guests + 1
  /\ session' = [session EXCEPT ![t] = GuestEntryResult(t).session]
  /\ UNCHANGED <<store, analyzing, signingUp, signedUp>>

\* (variant: logout clears the guest flag and keeps the user id)
LogoutResult_KeepsUserId(t, err) ==
  IF err
  THEN [resp |-> Reply(500, Undefined, <<>>, "Could not log out"),
        session |-> session[t]]
  ELSE [resp |-> Reply(200, Undefined, <<>>, "Logged out successfully"),
        session |-> [userId |-> session[t].userId, isGuest |-> Undefined]]

\* POST /api/auth/logout; err is what the session store's destroy reports
LogoutResult(t, err) ==
  IF err
  THEN [resp |-> Reply(500, Undefined, <<>>, "Could not log out"),
        session |-> session[t]]
  ELSE [resp |-> Reply(200, Undefined, <<>>, "Logged out successfully"),
        session |-> EmptySession]

Logout(t, err) ==
  /\ session' = [session EXCEPT ![t] = LogoutResult(t, err).session]
  /\ UNCHANGED <<store, guests, analyzing, signingUp, signedUp>>

\* GET /api/auth/user
AuthUserResp(t) ==
  IF ~Truthy(session[t].userId)
  THEN Unauthorized
  ELSE IF Truthy(session[t].isGuest)
  THEN Reply(200, session[t].userId, <<>>, "")
  ELSE IF getUser(session[t].userId) = {}
  THEN Reply(401, Undefined, <<>>, "User not found")
  ELSE Reply(200, session[t].userId, <<>>, "")

AuthUser(t) == AuthUserResp(t).status # 0 /\ UNCHANGED vars

\* ---------------------------------------------------------- triage routes
\* (variant: the check without the trim)
SymptomsMissing_NoTrim(body) ==
  \/ ~body.hasSymptoms
  \/ body.symptoms = <<>>

\* !symptoms || symptoms.trim() === ""
SymptomsMissing(body) ==
  \/ ~body.hasSymptoms
  \/ body.symptoms = <<>>
  \/ trim(body.symptoms) = <<>>

\* quickTriageTypes?.join(", ") || null
QuickTriageType(body) ==
  LET joined == join(body.quickTriageTypes, <<",", " ">>)
  IN [isNull |-> joined = <<>>, text |-> joined]

\* POST /api/triage/analyze up to the classifier call: validation, the read
\* of the session identity, and the call itself (calls counts the classifier
\* calls the request has issued)
AnalyzeStartResult(t, body) ==
  IF SymptomsMissing(body)
  THEN [resp |-> Reply(400, Undefined, <<>>, "Symptoms are required"),
        analyzing |-> analyzing]
  ELSE [resp |-> NoResp,
        analyzing |-> analyzing \cup
          {[tok |-> t, userId |-> session[t].userId,
            isGuest |-> session[t].isGuest,
            symptoms |-> body.symptoms,
            quickTriageType |-> QuickTriageType(body),
            calls |-> 1]}]

AnalyzeStart(t, body) ==
  LET r == AnalyzeStartResult(t, body)
  IN /\ r.analyzing # analyzing => RowsUsed < MaxRows
     /\ analyzing' = r.analyzing
     /\ UNCHANGED <<store, session, guests, signingUp, signedUp>>

\* (variant: the guest flag is not copied to the row)
TriageValues_NoGuestFlag(r, analysis) ==
  [userId |-> IF Truthy(r.isGuest) THEN Null ELSE r.userId,
   symptoms |-> r.symptoms,
   quickTriageType |-> r.quickTriageType,
   riskLevel |-> analysis.riskLevel,
   triagePriority |-> analysis.triagePriority,
   isGuest |-> JFalse]

\* the values POST /api/triage/analyze hands to storage.createTriageSession
TriageValues(r, analysis) ==
  [userId |-> IF Truthy(r.isGuest) THEN Null ELSE r.userId,
   symptoms |-> r.symptoms,
   quickTriageType |-> r.quickTriageType,
   riskLevel |-> analysis.riskLevel,
   triagePriority |-> analysis.triagePriority,
   isGuest |-> OrElse(r.isGuest, JFalse)]

\* (variant: the identity is read from the session after the classifier call)
AnalyzeReturnResult_ReadsLate(r, analysis) ==
  LET late == [r EXCEPT !.userId = session[r.tok].userId,
                        !.isGuest = session[r.tok].isGuest]
      v == TriageValues(late, analysis)
      id == TriageId(Len(triageSessions) + 1)
  IN IF TriageSessionsOk(v)
     THEN [resp |-> Reply(200, id, <<analysis>>, ""),
           triageSessions |-> Append(triageSessions,
             [id |-> id, userId |-> Column(v.userId),
              symptoms |-> v.symptoms,
              quickTriageType |-> v.quickTriageType,
              riskLevel |-> v.riskLevel,
              triagePriority |-> v.triagePriority,
              isGuest |-> v.isGuest,
              by |-> [userId |-> late.userId, isGuest |-> late.isGuest]])]
     ELSE [resp |-> Reply(500, Undefined, <<>>, "insert failed"),
           triageSessions |-> triageSessions]

\* POST /api/triage/analyze from the classifier's answer on; the row's `by`
\* is history: the session payload the request read
AnalyzeReturnResult(r, analysis) ==
  LET v == TriageValues(r, analysis)
      id == TriageId(Len(triageSessions) + 1)
  IN IF TriageSessionsOk(v)
     THEN [resp |-> Reply(200, id, <<analysis>>, ""),
           triageSessions |-> Append(triageSessions,
             [id |-> id, userId |-> Column(v.userId),
              symptoms |-> v.symptoms,
              quickTriageType |-> v.quickTriageType,
              riskLevel |-> v.riskLevel,
              triagePriority |-> v.triagePriority,
              isGuest |-> v.isGuest,
              by |-> [userId |-> r.userId, isGuest |-> r.isGuest]])]
     ELSE [resp |-> Reply(500, Undefined, <<>>, "insert failed"),
           triageSessions |-> triageSessions]

AnalyzeReturn(r, analysis) ==
  /\ r \in analyzing
  /\ analyzing' = analyzing \ {r}
  /\ triageSessions' = AnalyzeReturnResult(r, analysis).triageSessions
  /\ UNCHANGED <<users, vitals, consultations, session, guests, signingUp,
                 signedUp>>

\* (variant: the catch block calls the classifier again)
AnalyzeThrowResult_Retry(r) ==
  [resp |-> NoResp,
   analyzing |-> (analyzing \ {r}) \cup {[r EXCEPT !.calls = r.calls + 1]}]

\* POST /api/triage/analyze when the classifier call throws: the catch
\* block answers, nothing is called again
AnalyzeThrowResult(r) ==
  [resp |-> Reply(500, Undefined, <<>>, "Analysis failed"),
   analyzing |-> analyzing \ {r}]

AnalyzeThrow(r) ==
  /\ r \in analyzing
  /\ analyzing' = AnalyzeThrowResult(r).analyzing
  /\ UNCHANGED <<store, session, guests, signingUp, signedUp>>

\* GET /api/triage/session/:id
GetTriageSessionResp(id) ==
  IF getTriageSession(id) = {}
  THEN Reply(404, Undefined, <<>>, "Session not found")
  ELSE Reply(200, id, SelectSeq(triageSessions, LAMBDA row : row.id = id),
             "")

GetTriageSession(t, id) ==
  GetTriageSessionResp(id).status # 0 /\ UNCHANGED vars

\* (variant: the route is registered without the gate)
GetHistoryResp_NoGate(t) ==
  Reply(200, Undefined, getTriageSessionsByUser(session[t].userId), "")

\* GET /api/triage/history
GetHistoryResp(t) ==
  IF ~isAuthenticated(session[t])
  THEN Unauthorized
  ELSE Reply(200, Undefined, getTriageSessionsByUser(session[t].userId), "")

GetHistory(t) == GetHistoryResp(t).status # 0 /\ UNCHANGED vars

\* ---------------------------------------------------------- vitals routes
\* (variant: the route asks the storage for every vitals row)
GetVitalsResp_AllRows(t) ==
  IF ~isAuthenticated(session[t])
  THEN Unauthorized
  ELSE Reply(200, Undefined, vitals, "")

\* GET /api/vitals
GetVitalsResp(t) ==
  IF ~isAuthenticated(session[t])
  THEN Unauthorized
  ELSE Reply(200, Undefined, getVitalsByUser(session[t].userId), "")

GetVitals(t) == GetVitalsResp(t).status # 0 /\ UNCHANGED vars

\* { userId, ...req.body }: a userId key of the body comes last and wins
VitalsValues(userId, body) ==
  [userId |-> IF body.hasUserId THEN body.userId ELSE userId]

\* (variant: the route is registered without the gate)
PostVitalsResult_NoGate(t, body) ==
  LET v == VitalsValues(session[t].userId, body)
      row == [id |-> Len(vitals) + 1, userId |-> Column(v.userId),
              via |-> "route", by |-> session[t].userId]
  IN IF VitalsOk(v)
     THEN [resp |-> Reply(200, Undefined, <<row>>, ""),
           vitals |-> Append(vitals, row)]
     ELSE [resp |-> Reply(500, Undefined, <<>>,
                          "Error creating vitals record"),
           vitals |-> vitals]

\* POST /api/vitals; the row's `by` is history: the session's user id
PostVitalsResult(t, body) ==
  IF ~isAuthenticated(session[t])
  THEN [resp |-> Unauthorized, vitals |-> vitals]
  ELSE LET v == VitalsValues(session[t].userId, body)
           row == [id |-> Len(vitals) + 1, userId |-> Column(v.userId),
                   via |-> "route", by |-> session[t].userId]
       IN IF VitalsOk(v)
          THEN [resp |-> Reply(200, Undefined, <<row>>, ""),
                vitals |-> Append(vitals, row)]
          ELSE [resp |-> Reply(500, Undefined, <<>>,
                               "Error creating vitals record"),
                vitals |-> vitals]

PostVitals(t, body) ==
  LET r == PostVitalsResult(t, body)
  IN /\ r.vitals # vitals => RowsUsed < MaxRows
     /\ vitals' = r.vitals
     /\ UNCHANGED <<users, triageSessions, consultations, session, guests,
                    analyzing, signingUp, signedUp>>

\* ---------------------------------------------------- consultation routes
\* GET /api/consultations
GetConsultationsResp(t) ==
  IF ~isAuthenticated(session[t])
  THEN Unauthorized
  ELSE Reply(200, Undefined, getConsultationsByUser(session[t].userId), "")

GetConsultations(t) == GetConsultationsResp(t).status # 0 /\ UNCHANGED vars

\* (variant: the status is taken from the request body)
ConsultationValues_BodyStatus(userId, body) ==
  [userId |-> userId,
   consultationType |-> body.consultationType,
   triageSessionId |-> OrElse(body.triageSessionId, Null),
   status |-> body.status]

\* the values POST /api/consultations hands to storage.createConsultation
ConsultationValues(userId, body) ==
  [userId |-> userId,
   consultationType |-> body.consultationType,
   triageSessionId |-> OrElse(body.triageSessionId, Null),
   status |-> "pending"]

\* POST /api/consultations; the row's `by` is history: the session's user id
PostConsultationResult(t, body) ==
  IF ~isAuthenticated(session[t])
  THEN [resp |-> Unauthorized, consultations |-> consultations]
  ELSE LET v == ConsultationValues(session[t].userId, body)
           row == [id |-> Len(consultations) + 1,
                   userId |-> Column(v.userId),
                   consultationType |-> v.consultationType,
                   triageSessionId |-> v.triageSessionId,
                   status |-> v.status, by |-> session[t].userId]
       IN IF ConsultationsOk(v)
          THEN [resp |-> Reply(200, Undefined, <<row>>, ""),
                consultations |-> Append(consultations, row)]
          ELSE [resp |-> Reply(500, Undefined, <<>>,
                               "Error creating consultation"),
                consultations |-> consultations]

PostConsultation(t, body) ==
  LET r == PostConsultationResult(t, body)
  IN /\ r.consultations # consultations => RowsUsed < MaxRows
     /\ consultations' = r.consultations
     /\ UNCHANGED <<users, triageSessions, vitals, session, guests,
                    analyzing, signingUp, signedUp>>

\* ------------------------------------------------------------- seed route
RECURSIVE SeedVitals(_, _, _)
\* the days-loop of the seed route: one vitals row per day for userId
SeedVitals(vs, userId, days) ==
  IF days = 0 THEN vs
  ELSE SeedVitals(Append(vs, [id |-> Len(vs) + 1, userId |-> userId,
                              via |-> "seed", by |-> userId]),
                  userId, days - 1)

RECURSIVE SeedFrom(_, _, _)
\* the patients-loop of the seed route, from patient k on
SeedFrom(us, vs, k) ==
  IF k > Len(SeedPatients) THEN [users |-> us, vitals |-> vs]
  ELSE IF \E i \in DOMAIN us : us[i].email = SeedPatients[k].email
  THEN SeedFrom(us, vs, k + 1)
  ELSE LET id == UserId(Len(us) + 1)
       IN SeedFrom(Append(us, [id |-> id, email |-> SeedPatients[k].email,
                     password |-> hashPassword(SeedPatients[k].password),
                     firstName |-> <<"P">>, lastName |-> <<"S">>]),
                   SeedVitals(vs, id, SeedDays), k + 1)

\* POST /api/seed
SeedResult ==
  LET r == SeedFrom(users, vitals, 1)
  IN [resp |-> Reply(200, Undefined, <<>>, "Seed data created successfully"),
      users |-> r.users, vitals |-> r.vitals]

Seed ==
  /\ users' = SeedResult.users
  /\ vitals' = SeedResult.vitals
  /\ UNCHANGED <<triageSessions, consultations, session, guests, analyzing,
                 signingUp, signedUp>>

\* ------------------------------------------------------------------- Next
Next ==
  \/ \E t \in Tokens, body \in LoginBodies : Login(t, body)
  \/ \E t \in Tokens, body \in SignupBodies : SignupStart(t, body)
  \/ \E r \in signingUp : SignupFinish(r)
  \/ \E t \in Tokens : GuestEntry(t)
  \/ \E t \in Tokens, err \in BOOLEAN : Logout(t, err)
  \/ \E t \in Tokens : AuthUser(t)
  \/ \E t \in Tokens, body \in AnalyzeBodies : AnalyzeStart(t, body)
  \/ \E r \in analyzing, analysis \in ClassifierOutputs :
       AnalyzeReturn(r, analysis)
  \/ \E r \in analyzing : AnalyzeThrow(r)
  \/ \E t \in Tokens, id \in {TriageId(1), BogusId} : GetTriageSession(t, id)
  \/ \E t \in Tokens : GetHistory(t)
  \/ \E t \in Tokens : GetVitals(t)
  \/ \E t \in Tokens, body \in VitalsBodies : PostVitals(t, body)
  \/ \E t \in Tokens : GetConsultations(t)
  \/ \E t \in Tokens, body \in ConsultationBodies : PostConsultation(t, body)
  \/ Seed

Spec == Init /\ [][Next]_vars

\* ================================================================= claims
Unauth(s) == Resolve(s) = "Unauthenticated"
IsGuest(s) == Resolve(s) = "Guest"
IsAuth(s) == Resolve(s) = "Authenticated"

\* C1: every Vitals and every Consultation row created through POST
\* /api/vitals or POST /api/consultations is owned by the user id the
\* caller's session held, whatever the request body carried.
C1_OwnerIsSessionUser ==
  /\ \A i \in DOMAIN vitals :
       vitals[i].via = "route" => vitals[i].userId = vitals[i].by
  /\ \A i \in DOMAIN consultations :
       consultations[i].userId = consultations[i].by

\* what every identity-scoped route answers to a session that is turned away:
\* 401, no rows, and no row created
Refused(t) ==
  /\ GetHistoryResp(t) = Unauthorized
  /\ GetVitalsResp(t) = Unauthorized
  /\ GetConsultationsResp(t) = Unauthorized
  /\ \A body \in VitalsBodies :
       PostVitalsResult(t, body) = [resp |-> Unauthorized, vitals |-> vitals]
  /\ \A body \in ConsultationBodies :
       PostConsultationResult(t, body) =
         [resp |-> Unauthorized, consultations |-> consultations]

\* C2: a session in the Guest state is answered 401 by GET/POST /api/vitals,
\* GET/POST /api/consultations and GET /api/triage/history; it is given no
\* rows and creates none.
C2_GuestRefused == \A t \in Tokens : IsGuest(session[t]) => Refused(t)

\* a guest session, with rows of all three tables in the store
C2_Witness ==
  /\ \E t \in Tokens : IsGuest(session[t])
  /\ vitals # <<>>
  /\ \E i \in DOMAIN triageSessions : IsGuest(triageSessions[i].by)

\* C3: a session with no userId is answered Unauthorized by the
\* identity-scoped routes; no stored row is returned and the store is left
\* as it was.
C3_UnauthenticatedRefused ==
  \A t \in Tokens : Unauth(session[t]) => Refused(t)

\* a session without identity, beside a user's session and that user's rows
C3_Witness ==
  \E t \in Tokens, u \in Tokens :
    /\ Unauth(session[t]) /\ IsAuth(session[u])
    /\ getVitalsByUser(session[u].userId) # <<>>

\* C4: no TriageSession row comes from a request whose session resolved to
\* Unauthenticated.
C4_NoRowFromUnauthenticated ==
  \A i \in DOMAIN triageSessions : ~Unauth(triageSessions[i].by)

\* a body whose symptoms are missing, empty or whitespace only
Blank(body) ==
  \/ ~body.hasSymptoms
  \/ \A i \in DOMAIN body.symptoms : body.symptoms[i] \in Whitespace

\* C5: POST /api/triage/analyze with missing, empty or whitespace-only
\* symptoms answers 400 in any session state, issues no classifier call and
\* leaves the triage sessions as they are.
C5_BlankSymptomsRejected ==
  \A t \in Tokens, body \in AnalyzeBodies :
    Blank(body) =>
      AnalyzeStartResult(t, body) =
        [resp |-> Reply(400, Undefined, <<>>, "Symptoms are required"),
         analyzing |-> analyzing]

\* a whitespace-only body is turned down while another request's classifier
\* call is outstanding
C5_Witness ==
  /\ analyzing # {}
  /\ \E t \in Tokens, body \in AnalyzeBodies :
       /\ body.hasSymptoms /\ body.symptoms # <<>> /\ Blank(body)
       /\ AnalyzeStartResult(t, body).resp.status = 400

\* C6: a TriageSession row created by a request that read a Guest session
\* has userId = null and isGuest = true, in every later state.
C6_GuestRowsStayGuest ==
  \A i \in DOMAIN triageSessions :
    IsGuest(triageSessions[i].by) =>
      /\ triageSessions[i].userId = Null
      /\ triageSessions[i].isGuest = JTrue

\* a guest's row, after the session that created it has become a user's:
\* one guest id was ever handed out, and every session is a user's now
C6_Witness ==
  /\ \E i \in DOMAIN triageSessions : IsGuest(triageSessions[i].by)
  /\ guests = 1
  /\ \A t \in Tokens : IsAuth(session[t])

C8_RowsInsideTaxonomy ==
  \A i \in DOMAIN triageSessions :
    /\ triageSessions[i].riskLevel \in {"low", "medium", "high"}
    /\ triageSessions[i].triagePriority \in {"P1", "P2", "P3", "P4"}

\* GET /api/auth/user and every identity-scoped route answer 401
AllRefused(t) == AuthUserResp(t).status = 401 /\ Refused(t)

\* C9: a successful logout leaves the session Unauthenticated, whatever it
\* was before; from then on GET /api/auth/user and the gated routes answer
\* 401, and only a login, a signup or a guest entry of that session ends
\* that.
C9_LogoutUntilLogin ==
  /\ [](\A t \in Tokens :
         /\ Unauth(LogoutResult(t, FALSE).session)
         /\ Unauth(session[t]) => AllRefused(t))
  /\ [][ \A t \in Tokens :
           /\ Logout(t, FALSE) => Unauth(session'[t])
           /\ (Unauth(session[t]) /\ ~Unauth(session'[t])) =>
                \/ \E body \in LoginBodies : Login(t, body)
                \/ \E r \in signingUp : r.tok = t /\ SignupFinish(r)
                \/ GuestEntry(t) ]_vars

\* the session that signed up and left rows behind has been logged out:
\* no session has an identity any more
C9_Witness ==
  /\ \A t \in Tokens : Unauth(session[t])
  /\ \E g \in signedUp : getVitalsByUser(g.id) # <<>>

\* C10: once a signup has succeeded, a login with its email and password
\* succeeds in every later state, on every session, and marks the session
\* Authenticated with the id the signup returned.
C10_SignupThenLogin ==
  \A g \in signedUp, t \in Tokens :
    LET r == LoginResult(t, [email |-> g.body.email,
                             password |-> g.body.password])
    IN /\ r.resp.status = 200
       /\ r.resp.id = g.id
       /\ r.session.userId = g.id
       /\ IsAuth(r.session)

\* every session is logged in as the user that signed up: the signup marked
\* one session only, the others came there by login
C10_Witness ==
  \E g \in signedUp :
    \A t \in Tokens : session[t].userId = g.id /\ IsAuth(session[t])

\* the email belongs to a stored user
Registered(email) == getUserByEmail(email) # {}

\* C11: a signup with an email that is already registered is answered 400,
\* adds no user row and leaves the caller's session as it was, whether the
\* email is found by the lookup or, a concurrent signup having inserted it
\* meanwhile, by the insert; no two user rows share an email.
C11_DuplicateEmailRejected ==
  /\ \A i, j \in DOMAIN users : users[i].email = users[j].email => i = j
  /\ \A t \in Tokens, body \in SignupBodies :
       (signupSchemaOk(body) /\ Registered(body.email)) =>
         SignupStartResult(t, body) =
           [resp |-> Reply(400, Undefined, <<>>, "Email already registered"),
            signingUp |-> signingUp]
  /\ \A r \in signingUp :
       Registered(r.body.email) =>
         /\ SignupFinishResult(r).resp.status = 400
         /\ SignupFinishResult(r).users = users
         /\ SignupFinishResult(r).session = session[r.tok]

\* two signups with one email were under way together and the other one has
\* inserted its row; this one's session is a guest's
C11_Witness ==
  \E r \in signingUp :
    Registered(r.body.email) /\ IsGuest(session[r.tok])

\* every row of a list is owned by userId
OwnedBy(rows, userId) == \A k \in DOMAIN rows : rows[k].userId = userId

\* C12: for an Authenticated session of user u, every row GET /api/vitals,
\* GET /api/consultations and GET /api/triage/history return has userId = u.
C12_ListsOnlyOwnRows ==
  \A t \in Tokens :
    IsAuth(session[t]) =>
      /\ GetVitalsResp(t).status = 200
      /\ OwnedBy(GetVitalsResp(t).rows, session[t].userId)
      /\ GetConsultationsResp(t).status = 200
      /\ OwnedBy(GetConsultationsResp(t).rows, session[t].userId)
      /\ GetHistoryResp(t).status = 200
      /\ OwnedBy(GetHistoryResp(t).rows, session[t].userId)

\* a user is given rows of their own while the table holds other users' rows
C12_Witness ==
  \E t \in Tokens :
    /\ IsAuth(session[t])
    /\ GetVitalsResp(t).rows # <<>>
    /\ \E i \in DOMAIN vitals : vitals[i].userId # session[t].userId

\* C13: a consultation POST /api/consultations creates has status pending,
\* whatever status the request body carried; every stored consultation has
\* status pending.
C13_ConsultationsPending ==
  /\ \A i \in DOMAIN consultations : consultations[i].status = "pending"
  /\ \A t \in Tokens, body \in ConsultationBodies :
       LET r == PostConsultationResult(t, body)
       IN \A k \in DOMAIN r.resp.rows : r.resp.rows[k].status = "pending"

\* a consultation is stored that was requested with status confirmed
C13_Witness ==
  \E i \in DOMAIN consultations, body \in ConsultationBodies :
    /\ body.status = "confirmed"
    /\ consultations[i].consultationType = body.consultationType

\* the id of a stored user
UserExists(v) == getUser(v) # {}

\* C14: every stored vitals row and consultation has the id of a stored user
\* as userId, every stored triage session null or the id of a stored user; a
\* POST /api/vitals whose userId would be an unknown id, a guest id or null
\* is answered 500 and stores nothing.
C14_OwnersExist ==
  /\ \A i \in DOMAIN vitals : UserExists(vitals[i].userId)
  /\ \A i \in DOMAIN consultations : UserExists(consultations[i].userId)
  /\ \A i \in DOMAIN triageSessions :
       triageSessions[i].userId = Null \/ UserExists(triageSessions[i].userId)
  /\ \A t \in Tokens, userId \in {BogusId, GuestId(1), Null} :
       IsAuth(session[t]) =>
         PostVitalsResult(t, [hasUserId |-> TRUE, userId |-> userId]) =
           [resp |-> Reply(500, Undefined, <<>>,
                           "Error creating vitals record"),
            vitals |-> vitals]

\* a user has stored a vitals row through the route, and is turned down when
\* asking for one under an unknown id
C14_Witness ==
  \E t \in Tokens, i \in DOMAIN vitals :
    /\ IsAuth(session[t])
    /\ vitals[i].via = "route" /\ vitals[i].by = session[t].userId
    /\ PostVitalsResult(t, [hasUserId |-> TRUE, userId |-> BogusId])
         .resp.status = 500

\* the email is no stored user's
UnknownEmail(body) == ~Registered(body.email)

\* the email is a stored user's and the password is not that user's
WrongPassword(body) ==
  \E i \in DOMAIN users :
    /\ users[i].email = body.email
    /\ users[i].password # hashPassword(body.password)

NoIdentity(s) == s.userId = Undefined
GuestIdentity(s) == s.userId.kind = "guest" /\ s.isGuest = JTrue
UserIdentity(s) == UserExists(s.userId) /\ s.isGuest = JFalse

\* C16: every session has no userId, or a guest id with isGuest = true, or
\* the id of a stored user with isGuest = false, and exactly one of the
\* three; the routes' reading of the session agrees with it.
C16_ThreeSessionStates ==
  \A t \in Tokens :
    LET s == session[t]
    IN /\ Cardinality({k \in 1..3 :
                         \/ k = 1 /\ NoIdentity(s)
                         \/ k = 2 /\ GuestIdentity(s)
                         \/ k = 3 /\ UserIdentity(s)}) = 1
       /\ NoIdentity(s) <=> Unauth(s)
       /\ GuestIdentity(s) <=> IsGuest(s)
       /\ UserIdentity(s) <=> IsAuth(s)

\* after a guest entry and a signup, a guest's session beside a user's
C16_Witness ==
  /\ guests = 1 /\ signedUp # {}
  /\ \E t \in Tokens, u \in Tokens :
       IsGuest(session[t]) /\ IsAuth(session[u])

\* the identity an outstanding analyze request read from its session
Held(r) == [userId |-> r.userId, isGuest |-> r.isGuest]

\* what the routes would answer session u, and the state they would leave
Outcomes(u) ==
  << [body \in LoginBodies |-> LoginResult(u, body)],
     [body \in SignupBodies |-> SignupStartResult(u, body)],
     GuestEntryResult(u),
     [err \in BOOLEAN |-> LogoutResult(u, err)],
     AuthUserResp(u),
     [body \in AnalyzeBodies |->
        LET r == AnalyzeStartResult(u, body)
        IN <<r.resp, {q \in r.analyzing : q.tok = u}>>],
     [id \in {TriageId(1), BogusId} |-> GetTriageSessionResp(id)],
     GetHistoryResp(u), GetVitalsResp(u), GetConsultationsResp(u),
     [body \in VitalsBodies |-> PostVitalsResult(u, body)],
     [body \in ConsultationBodies |-> PostConsultationResult(u, body)] >>

\* C17: POST /api/triage/analyze reads the session identity once, when it
\* issues the classifier call; no other request changes what it read; the
\* row it inserts is owned by that identity, whatever the session holds by
\* then; and issuing the call, or its failing, changes no outcome of any
\* request of another session.
C17_IdentityReadOnce ==
  [][ /\ \A q \in analyzing' \ analyzing :
           /\ Held(q) = session[q.tok]
           /\ \E body \in AnalyzeBodies : AnalyzeStart(q.tok, body)
      /\ \A r \in analyzing :
           /\ \/ r \in analyzing'
              \/ AnalyzeThrow(r)
              \/ \E analysis \in ClassifierOutputs : AnalyzeReturn(r, analysis)
           /\ \A analysis \in ClassifierOutputs :
                AnalyzeReturn(r, analysis) =>
                  LET row == triageSessions'[Len(triageSessions')]
                  IN /\ Len(triageSessions') = Len(triageSessions) + 1
                     /\ row.userId = IF Truthy(r.isGuest) THEN Null
                                     ELSE Column(r.userId)
                     /\ row.isGuest = OrElse(r.isGuest, JFalse)
                     /\ session' = session
      /\ (analyzing' # analyzing /\ triageSessions' = triageSessions) =>
           \A q \in (analyzing' \ analyzing) \cup (analyzing \ analyzing') :
             \A u \in Tokens \ {q.tok} : Outcomes(u)' = Outcomes(u) ]_vars

\* a classifier call is outstanding and the session that issued it has
\* changed hands since
C17_Witness ==
  \E r \in analyzing : Resolve(session[r.tok]) # Resolve(Held(r))

====
